---------------------------- MODULE Spec2Model ----------------------------
(***************************************************************************)
(* A model of the book tracker: the CSV-backed command line program        *)
(* (booktracker_argparse/src/main.py), the Book constructors of its        *)
(* rewrites, and the SQLite-backed add/edit/delete commands.               *)
(*                                                                         *)
(* Strings are sequences of one-character strings, so that substring       *)
(* search, re.match, int() and str() are computed and not assumed.         *)
(* Python's None is the one-element sequence NONE, which no string of the  *)
(* program's alphabet equals.                                              *)
(***************************************************************************)
EXTENDS Integers, Sequences, FiniteSets, TLC

VARIABLES
    csv,    \* the CSV file at DB_PATH: [exists, rows], rows a sequence of rows of cells
    out,    \* what the last command of the CSV program did (exception, message, prompts)
    call,   \* the last Book construction tried: program variant and arguments
    res,    \* its result: the Book, or the exception raised
    db,     \* the table books of the SQLite file: a set of rows, one per id
    seq,    \* sqlite_sequence of the table: the greatest id an INSERT has given
    dbout,  \* what the last command on the SQLite file did
    shelf,  \* the books given to BookStats: a sequence of Book arguments
    stat,   \* the last statistics request and what it returned or raised
    query,  \* the last read command and the books it showed
    proc    \* the add commands that run side by side: where each one is

vars == <<csv, out, call, res, db, seq, dbout, shelf, stat, query, proc>>

----------------------------------------------------------------------------
(* Bounds of the model *)

\* Add and edit are tried only while the file holds at most MaxBooks rows, its header included.
MaxBooks == 3
\* Add is tried only while the id it would assign is at most MaxId.
MaxId == 2
\* An INSERT is tried only while the id it would assign is at most MaxDbId.
MaxDbId == 2

----------------------------------------------------------------------------
(* Strings *)

NONE == <<"None">>

Truthy(s) == s # NONE /\ s # <<>>

Digits == <<"0", "1", "2", "3", "4", "5", "6", "7", "8", "9">>

IsDigit(c) == \E i \in 1..10 : Digits[i] = c

DigitVal(c) == (CHOOSE i \in 1..10 : Digits[i] = c) - 1

UpperAlpha == <<"A","B","C","D","E","F","G","H","I","J","K","L","M",
                "N","O","P","Q","R","S","T","U","V","W","X","Y","Z">>

LowerAlpha == <<"a","b","c","d","e","f","g","h","i","j","k","l","m",
                "n","o","p","q","r","s","t","u","v","w","x","y","z">>

\* str.lower()
Lower(s) ==
    [i \in 1..Len(s) |->
        IF \E k \in 1..26 : UpperAlpha[k] = s[i]
        THEN LowerAlpha[CHOOSE k \in 1..26 : UpperAlpha[k] = s[i]]
        ELSE s[i]]

\* sub in s
Contains(sub, s) ==
    \E i \in 0..(Len(s) - Len(sub)) : SubSeq(s, i + 1, i + Len(sub)) = sub

\* int(s) succeeds: the strings of the model hold no sign, blank or underscore
IntOk(s) == s # NONE /\ Len(s) > 0 /\ \A i \in 1..Len(s) : IsDigit(s[i])

RECURSIVE StrToInt(_)
StrToInt(s) ==
    IF Len(s) = 0 THEN 0
    ELSE 10 * StrToInt(SubSeq(s, 1, Len(s) - 1)) + DigitVal(s[Len(s)])

RECURSIVE NatToStr(_)
NatToStr(n) ==
    IF n < 10 THEN <<Digits[n + 1]>>
    ELSE NatToStr(n \div 10) \o <<Digits[(n % 10) + 1]>>

\* str(n)
IntToStr(n) == IF n < 0 THEN <<"-">> \o NatToStr(0 - n) ELSE NatToStr(n)

----------------------------------------------------------------------------
(* Dates: datetime.fromisoformat and the difference of two dates in days *)

IsLeap(y) == y % 4 = 0 /\ (y % 100 # 0 \/ y % 400 = 0)

DaysInMonth(y, m) ==
    IF m = 2 THEN (IF IsLeap(y) THEN 29 ELSE 28)
    ELSE IF m \in {4, 6, 9, 11} THEN 30 ELSE 31

DaysBeforeYear(y) ==
    (y - 1) * 365 + ((y - 1) \div 4) - ((y - 1) \div 100) + ((y - 1) \div 400)

RECURSIVE DaysBeforeMonth(_, _)
DaysBeforeMonth(y, m) ==
    IF m = 1 THEN 0 ELSE DaysBeforeMonth(y, m - 1) + DaysInMonth(y, m - 1)

\* date.toordinal()
Ymd2Ord(y, m, d) == DaysBeforeYear(y) + DaysBeforeMonth(y, m) + d

AllDigits(s, from, to) == \A i \in from..to : IsDigit(s[i])

\* re.match("[0-9]{4}-[0-9]{2}-[0-9]{2}", s): a match at the start of s, with
\* no anchor at its end
ReMatchDate(s) ==
    /\ s # NONE
    /\ Len(s) >= 10
    /\ AllDigits(s, 1, 4) /\ s[5] = "-"
    /\ AllDigits(s, 6, 7) /\ s[8] = "-"
    /\ AllDigits(s, 9, 10)

ValidYmd(y, m, d) ==
    /\ y >= 1
    /\ m \in 1..12
    /\ d >= 1 /\ d <= DaysInMonth(y, m)

\* datetime.fromisoformat(s) of Python 3.11, for the strings of the model
\* (at most 11 characters, without "T", "W", ":" or blanks, so no time part
\* and no week date can be written): YYYY-MM-DD or YYYYMMDD with a month and
\* a day that exist; anything else raises ValueError.
FromIsoformat(s) ==
    IF Len(s) = 10 /\ ReMatchDate(s)
    THEN LET y == StrToInt(SubSeq(s, 1, 4))
             m == StrToInt(SubSeq(s, 6, 7))
             d == StrToInt(SubSeq(s, 9, 10))
         IN  [ok |-> ValidYmd(y, m, d), y |-> y, m |-> m, d |-> d]
    ELSE IF Len(s) = 8 /\ AllDigits(s, 1, 8)
    THEN LET y == StrToInt(SubSeq(s, 1, 4))
             m == StrToInt(SubSeq(s, 5, 6))
             d == StrToInt(SubSeq(s, 7, 8))
         IN  [ok |-> ValidYmd(y, m, d), y |-> y, m |-> m, d |-> d]
    ELSE [ok |-> FALSE, y |-> 0, m |-> 0, d |-> 0]

Ordinal(p) == Ymd2Ord(p.y, p.m, p.d)

\* the difference without its "+ 1"
DaysExclusive(ds, dc) == Ordinal(dc) - Ordinal(ds)

\* (dc - ds).days + 1  # inclusive
DaysInclusive(ds, dc) == (Ordinal(dc) - Ordinal(ds)) + 1

----------------------------------------------------------------------------
(* The Book dataclass of the CSV program and its file *)

ID == <<"i","d">>

TITLE == <<"t","i","t","l","e">>

AUTHOR == <<"a","u","t","h","o","r">>

STATUS == <<"s","t","a","t","u","s">>

DATE_STARTED == <<"d","a","t","e","_","s","t","a","r","t","e","d">>

DATE_COMPLETED == <<"d","a","t","e","_","c","o","m","p","l","e","t","e","d">>

DAYS_TO_READ == <<"d","a","y","s","_","t","o","_","r","e","a","d">>

TBR == <<"T","B","R">>

IN_PROGRESS == <<"I","N","_","P","R","O","G","R","E","S","S">>

COMPLETED == <<"C","O","M","P","L","E","T","E","D">>

\* class Status(StrEnum): the names equal the values
Status == {TBR, IN_PROGRESS, COMPLETED}

\* the fields of Book, in declaration order
BookFields == <<ID, TITLE, AUTHOR, STATUS, DATE_STARTED, DATE_COMPLETED, DAYS_TO_READ>>

\* book_dict = asdict(book); del book_dict["days_to_read"]
StoredFields == SubSeq(BookFields, 1, 6)

NoBook ==
    [id |-> NONE, title |-> NONE, author |-> NONE, status |-> NONE,
     date_started |-> NONE, date_completed |-> NONE, days_to_read |-> {}]

\* lines 70-75 of Book.__post_init__: days_to_read is a set, empty for None
DaysToRead(ds, dc) ==
    IF Truthy(ds) /\ Truthy(dc)
    THEN (IF ~FromIsoformat(ds).ok \/ ~FromIsoformat(dc).ok
          THEN [exc |-> "ValueError", days |-> {}]
          ELSE [exc |-> "none",
                days |-> {DaysInclusive(FromIsoformat(ds), FromIsoformat(dc))}])
    ELSE [exc |-> "none", days |-> {}]

\* csv.DictReader: the value of column key in a row read under header h. The last
\* column of that name counts; a row shorter than the header reads None there.
HasColumn(h, key) == \E i \in 1..Len(h) : h[i] = key

Column(h, row, key) ==
    LET i == CHOOSE j \in 1..Len(h) :
                 h[j] = key /\ \A k \in 1..Len(h) : h[k] = key => k <= j
    IN  IF i <= Len(row) THEN row[i] ELSE NONE

\* One Book(...) of read_books. A row whose id is empty makes __post_init__
\* call read_books again, without end.
RowBook(h, row) ==
    IF \E i \in 1..6 : ~HasColumn(h, StoredFields[i])
    THEN [exc |-> "KeyError", book |-> NoBook]
    ELSE IF Column(h, row, STATUS) \notin Status
    THEN [exc |-> "KeyError", book |-> NoBook]
    ELSE IF ~Truthy(Column(h, row, ID))
    THEN [exc |-> "RecursionError", book |-> NoBook]
    ELSE LET ds == Column(h, row, DATE_STARTED)
             dc == Column(h, row, DATE_COMPLETED)
             d  == DaysToRead(ds, dc)
         IN  [exc  |-> d.exc,
              book |-> [id |-> Column(h, row, ID),
                        title |-> Column(h, row, TITLE),
                        author |-> Column(h, row, AUTHOR),
                        status |-> Column(h, row, STATUS),
                        date_started |-> ds,
                        date_completed |-> dc,
                        days_to_read |-> d.days]]

\* read_books(): the first row of the file is the header, whatever it holds
ReadBooks(f) ==
    IF ~f.exists \/ Len(f.rows) = 0
    THEN [exc |-> "none", books |-> <<>>]
    ELSE LET h    == f.rows[1]
             n    == Len(f.rows) - 1
             each == [i \in 1..n |-> RowBook(h, f.rows[i + 1])]
         IN  IF \E i \in 1..n : each[i].exc # "none"
             THEN [exc |-> each[CHOOSE i \in 1..n :
                                   each[i].exc # "none"
                                   /\ \A j \in 1..(i - 1) : each[j].exc = "none"].exc,
                   books |-> <<>>]
             ELSE [exc |-> "none", books |-> [i \in 1..n |-> each[i].book]]

\* Book.__post_init__ of a Book built with the given arguments; r is what
\* read_books() returns or raises at line 63
PostInit(id, title, author, status, ds, dc, r) ==
    LET last == r.books[Len(r.books)].id
        d    == DaysToRead(ds, dc)
        mk(i) == [exc |-> d.exc,
                  book |-> [id |-> i, title |-> title, author |-> author,
                            status |-> status, date_started |-> ds,
                            date_completed |-> dc, days_to_read |-> d.days]]
    IN  IF Truthy(id) THEN mk(id)
        ELSE IF r.exc # "none" THEN [exc |-> r.exc, book |-> NoBook]
        ELSE IF Len(r.books) = 0 THEN mk(<<"1">>)
        ELSE IF ~IntOk(last) THEN [exc |-> "ValueError", book |-> NoBook]
        ELSE mk(IntToStr(StrToInt(last) + 1))

\* asdict(book), as the keys and the values in order
AsDict(b) ==
    [keys |-> BookFields,
     vals |-> <<b.id, b.title, b.author, b.status, b.date_started,
                b.date_completed, b.days_to_read>>]

\* del book_dict["days_to_read"]
DelDays(d) == [keys |-> SubSeq(d.keys, 1, 6), vals |-> SubSeq(d.vals, 1, 6)]

\* csv.writer.writerow(values): None is written as the empty string, an int by str()
CsvRow(d) ==
    [i \in 1..Len(d.vals) |->
        IF d.keys[i] = DAYS_TO_READ
        THEN (IF d.vals[i] = {} THEN <<>>
              ELSE IntToStr(CHOOSE n \in d.vals[i] : TRUE))
        ELSE (IF d.vals[i] = NONE THEN <<>> ELSE d.vals[i])]

\* a write_book that gives the row the id the file asks for when it is written
WriteBookFreshId(f, b) ==
    LET nb == PostInit(NONE, b.title, b.author, b.status, b.date_started,
                       b.date_completed, ReadBooks(f)).book
    IN  IF f.exists
        THEN [exists |-> TRUE, rows |-> Append(f.rows, CsvRow(DelDays(AsDict(nb))))]
        ELSE [exists |-> TRUE, rows |-> <<StoredFields, DelDays(AsDict(b)).keys>>]

\* write_book(book): a row is appended to a file that exists; for a new file the
\* header is written and then writerow(book_dict), which iterates the dict's keys
WriteBook(f, b) ==
    IF f.exists
    THEN [exists |-> TRUE, rows |-> Append(f.rows, CsvRow(DelDays(AsDict(b))))]
    ELSE [exists |-> TRUE, rows |-> <<StoredFields, DelDays(AsDict(b)).keys>>]

\* write_books(books): open(DB_PATH, "w") empties the file before books[0] is read
WriteBooks(books) ==
    IF Len(books) = 0
    THEN [exc |-> "IndexError", file |-> [exists |-> TRUE, rows |-> <<>>]]
    ELSE [exc |-> "none",
          file |-> [exists |-> TRUE,
                    rows |-> <<books[1].keys>>
                             \o [i \in 1..Len(books) |-> CsvRow(books[i])]]]

\* filter_books(field="id", value=id): value.lower() in str(b.id.lower())
FilterById(books, id) ==
    LET idx == {i \in 1..Len(books) : Contains(Lower(id), Lower(books[i].id))}
        RECURSIVE Pick(_)
        Pick(i) == IF i > Len(books) THEN <<>>
                   ELSE IF i \in idx THEN <<books[i]>> \o Pick(i + 1)
                   ELSE Pick(i + 1)
    IN  IF Truthy(id) THEN Pick(1) ELSE books

\* [asdict(b) for b in read_books() if b.id != id]
OthersThan(books, id) ==
    LET RECURSIVE Rest(_)
        Rest(i) == IF i > Len(books) THEN <<>>
                   ELSE IF books[i].id # id THEN <<AsDict(books[i])>> \o Rest(i + 1)
                   ELSE Rest(i + 1)
    IN  Rest(1)

----------------------------------------------------------------------------
(* The commands of the CSV program: main() of booktracker_argparse/src/main.py *)

\* answer is what the user said to the question of delete: "y", "n", or "none"
\* when nothing was asked; inp is what the user typed at the prompts of edit
NoOut ==
    [cmd |-> "none", arg |-> <<>>, exc |-> "none", msg |-> "", prompts |-> 0,
     id |-> NONE, answer |-> "none", inp |-> <<>>]

\* DateAction.__call__, run by argparse only for an option that is given
DateAction(v) == v = NONE \/ ReMatchDate(v)

\* the "add" branch of main(): the file after it and what was seen; r is
\* ReadBooks(f), what every read_books() of the command returns or raises
AddBook(f, r, a) ==
    LET b == PostInit(NONE, a.title, a.author, a.status,
                      a.date_started, a.date_completed, r)
    IN  IF a.status \notin Status
           \/ ~DateAction(a.date_started) \/ ~DateAction(a.date_completed)
        THEN [file |-> f, out |-> [NoOut EXCEPT !.cmd = "add", !.exc = "SystemExit"]]
        ELSE IF b.exc # "none"
        THEN [file |-> f, out |-> [NoOut EXCEPT !.cmd = "add", !.exc = b.exc]]
        ELSE [file |-> WriteBook(f, b.book),
              out  |-> [NoOut EXCEPT !.cmd = "add", !.msg = "Added",
                                     !.id = b.book.id]]

\* the loop of edit_book over book_dict.items(): a blank input keeps the value
Prompted(d, inp) ==
    [keys |-> d.keys,
     vals |-> [i \in 1..Len(d.vals) |-> IF inp[i] # <<>> THEN inp[i] ELSE d.vals[i]]]

\* edit_book(id) with the user's six inputs
EditBook(f, r, id, inp) ==
    LET found == FilterById(r.books, id)
        o     == [NoOut EXCEPT !.cmd = "edit", !.arg = id]
        new   == Prompted(DelDays(AsDict(found[1])), inp)
        w     == WriteBooks(OthersThan(r.books, id) \o <<new>>)
    IN  IF ~Truthy(id) THEN [file |-> f, out |-> o]
        ELSE IF r.exc # "none" THEN [file |-> f, out |-> [o EXCEPT !.exc = r.exc]]
        ELSE IF Len(found) = 0
        THEN [file |-> f, out |-> [o EXCEPT !.msg = "There is no book with id"]]
        ELSE [file |-> w.file,
              out  |-> [o EXCEPT !.prompts = 6, !.exc = w.exc, !.id = found[1].id,
                                 !.inp = inp]]

\* delete_book without its "if query:": the rows are rewritten whatever the answer
DeleteBookUnasked(f, r, id, yes) ==
    LET found == FilterById(r.books, id)
        o     == [NoOut EXCEPT !.cmd = "delete", !.arg = id]
        asked == [o EXCEPT !.prompts = 1, !.id = found[1].id,
                           !.answer = IF yes THEN "y" ELSE "n"]
        w     == WriteBooks(OthersThan(r.books, id))
    IN  IF ~Truthy(id) THEN [file |-> f, out |-> o]
        ELSE IF r.exc # "none" THEN [file |-> f, out |-> [o EXCEPT !.exc = r.exc]]
        ELSE IF Len(found) = 0
        THEN [file |-> f, out |-> [o EXCEPT !.msg = "There is no book with id"]]
        ELSE IF w.exc # "none"
        THEN [file |-> w.file, out |-> [asked EXCEPT !.exc = w.exc]]
        ELSE [file |-> w.file, out |-> [asked EXCEPT !.msg = "Deleting"]]

\* delete_book(id) with the user's answer to Confirm.ask
DeleteBook(f, r, id, yes) ==
    LET found == FilterById(r.books, id)
        o     == [NoOut EXCEPT !.cmd = "delete", !.arg = id]
        asked == [o EXCEPT !.prompts = 1, !.id = found[1].id,
                           !.answer = IF yes THEN "y" ELSE "n"]
        w     == WriteBooks(OthersThan(r.books, id))
    IN  IF ~Truthy(id) THEN [file |-> f, out |-> o]
        ELSE IF r.exc # "none" THEN [file |-> f, out |-> [o EXCEPT !.exc = r.exc]]
        ELSE IF Len(found) = 0
        THEN [file |-> f, out |-> [o EXCEPT !.msg = "There is no book with id"]]
        ELSE IF ~yes THEN [file |-> f, out |-> asked]
        ELSE IF w.exc # "none"
        THEN [file |-> w.file, out |-> [asked EXCEPT !.exc = w.exc]]
        ELSE [file |-> w.file, out |-> [asked EXCEPT !.msg = "Deleting"]]

----------------------------------------------------------------------------
(* The inputs tried *)

D0101 == <<"2","0","2","5","-","0","1","-","0","1">>

D0105 == <<"2","0","2","5","-","0","1","-","0","5">>

\* a date followed by one more character
D0105x == <<"2","0","2","5","-","0","1","-","0","5","x">>

Arg(t, a, s, ds, dc) ==
    [title |-> t, author |-> a, status |-> s, date_started |-> ds, date_completed |-> dc]

\* the command lines of "add"
AddInputs ==
    { Arg(<<"a">>, <<"b">>, TBR, NONE, NONE),
      Arg(<<"a","c">>, <<"b">>, COMPLETED, D0101, D0105),
      Arg(<<"a">>, <<"b">>, TBR, D0105x, NONE),
      Arg(<<"a">>, <<"b">>, TBR, D0105x, D0105),
      Arg(<<"a">>, <<"b">>, <<"X">>, NONE, NONE),
      Arg(<<"a">>, <<"b">>, TBR, <<"x">>, NONE) }

\* the ids given to "edit" and "delete"
ArgIds == { <<"1">>, <<"2">>, <<"1","0">> }

\* the six answers to the prompts of "edit": id, title, author, status and the dates
EditInputs ==
    { << <<>>, <<>>, <<>>, <<>>, <<>>, <<>> >>,
      << <<"1","0">>, <<"c">>, <<>>, <<>>, <<>>, <<>> >>,
      << <<>>, <<>>, <<>>, <<"X">>, <<>>, <<>> >> }

----------------------------------------------------------------------------
(* The CSV program as a state machine: one command per step *)

\* the file as a user finds it: not there yet, or holding the header alone
EmptyStores ==
    { [exists |-> FALSE, rows |-> <<>>], [exists |-> TRUE, rows |-> <<StoredFields>>] }

NoCall == [prog |-> "none", kind |-> "none", args |-> Arg(NONE, NONE, NONE, NONE, NONE)]

NoRes == [exc |-> "none", book |-> NoBook]

\* built tells how far an add came: "none" when Book(...) was not reached,
\* "Book" when it returned a Book, and else the exception it raised
\* answer is what the user said to the question of delete and inp what the
\* user typed at the prompts of edit, as in NoOut
NoDbOut ==
    [prog |-> "none", cmd |-> "none", args |-> Arg(NONE, NONE, NONE, NONE, NONE),
     id |-> 0, built |-> "none", exc |-> "none", msg |-> "", prompts |-> 0,
     answer |-> "none", inp |-> <<>>]

\* a request for statistics: the program, the method or command, its arguments,
\* and the rows it returned (of the table it printed, for a command)
NoStat ==
    [prog |-> "none", kind |-> "none", year |-> 0, month |-> 0, detailed |-> FALSE,
     order |-> <<>>, exc |-> "none", msg |-> "", rows |-> <<>>]

\* what a read command was asked and what it showed; books is <<>> when it
\* raised
NoQuery ==
    [prog |-> "none", field |-> "", value |-> NONE, exc |-> "none", books |-> <<>>]

\* the two add commands that may run at the same time
Procs == {1, 2}

\* an add command that has not started: args are its arguments, r is what
\* its read_books() returned and book the Book it built
NoProcs ==
    [p \in Procs |-> [pc |-> "start", args |-> Arg(NONE, NONE, NONE, NONE, NONE),
                      r |-> [exc |-> "none", books |-> <<>>],
                      book |-> NoBook, exc |-> "none"]]

\* the CSV file as a user finds it, and the table as CREATE TABLE leaves it
Init ==
    /\ csv \in EmptyStores
    /\ out = NoOut
    /\ call = NoCall
    /\ res = NoRes
    /\ db = {}
    /\ seq = 0
    /\ dbout = NoDbOut
    /\ shelf = <<>>
    /\ stat = NoStat
    /\ query = NoQuery
    /\ proc = NoProcs

\* a bound of the model: add and edit can both lengthen the file (edit_book
\* appends the edited row and drops only the rows whose id equals its argument)
RoomInFile(f) == Len(f.rows) <= MaxBooks

\* a bound of the model: the id the next add assigns
WithinBounds(f, r) ==
    /\ RoomInFile(f)
    /\ (r.exc = "none" /\ Len(r.books) > 0 /\ IntOk(r.books[Len(r.books)].id))
          => StrToInt(r.books[Len(r.books)].id) + 1 <= MaxId

Add ==
    LET r == ReadBooks(csv)
    IN  /\ WithinBounds(csv, r)
        /\ \E a \in AddInputs :
              LET x == AddBook(csv, r, a)
              IN  csv' = x.file /\ out' = x.out
        /\ UNCHANGED <<call, res, db, seq, dbout, shelf, stat, query, proc>>

Edit ==
    LET r == ReadBooks(csv)
    IN  /\ RoomInFile(csv)
        /\ \E id \in ArgIds, inp \in EditInputs :
              LET x == EditBook(csv, r, id, inp)
              IN  csv' = x.file /\ out' = x.out
        /\ UNCHANGED <<call, res, db, seq, dbout, shelf, stat, query, proc>>

Delete ==
    LET r == ReadBooks(csv)
    IN  /\ \E id \in ArgIds, yes \in BOOLEAN :
              LET x == DeleteBook(csv, r, id, yes)
              IN  csv' = x.file /\ out' = x.out
        /\ UNCHANGED <<call, res, db, seq, dbout, shelf, stat, query, proc>>

Next == Add \/ Edit \/ Delete

Spec == Init /\ [][Next]_vars

----------------------------------------------------------------------------
(* The Book constructors of the rewrites and the date checks of their command
   lines, each applied to arguments drawn from a bounded set *)

\* the places of "-" in s
Dashes(s) == {i \in 1..Len(s) : s[i] = "-"}

\* datetime.strptime(s, "%Y-%m-%d"): four digits, then a month and a day of one
\* or two digits, and nothing after; the date must exist
Strptime(s) ==
    LET i  == CHOOSE k \in Dashes(s) : \A j \in Dashes(s) : k <= j
        j  == CHOOSE k \in Dashes(s) : \A l \in Dashes(s) : l <= k
        ys == SubSeq(s, 1, i - 1)
        ms == SubSeq(s, i + 1, j - 1)
        ds == SubSeq(s, j + 1, Len(s))
        bad == [ok |-> FALSE, y |-> 0, m |-> 0, d |-> 0]
    IN  IF s = NONE \/ Cardinality(Dashes(s)) # 2 THEN bad
        ELSE IF ~(Len(ys) = 4 /\ IntOk(ys)) THEN bad
        ELSE IF ~(Len(ms) \in 1..2 /\ IntOk(ms) /\ Len(ds) \in 1..2 /\ IntOk(ds)) THEN bad
        ELSE [ok |-> ValidYmd(StrToInt(ys), StrToInt(ms), StrToInt(ds)),
              y |-> StrToInt(ys), m |-> StrToInt(ms), d |-> StrToInt(ds)]

\* Book.__post_init__ of booktracker_click/booktracker.py
BookClick(a) ==
    LET ds == a.date_started
        dc == a.date_completed
        mk(days) == [exc |-> "none",
                     book |-> [id |-> NONE, title |-> a.title, author |-> a.author,
                               status |-> a.status, date_started |-> ds,
                               date_completed |-> dc, days_to_read |-> days]]
    IN  IF a.status \notin Status THEN [exc |-> "ValueError", book |-> NoBook]
        ELSE IF Truthy(ds) /\ Truthy(dc)
        THEN (IF ~Strptime(ds).ok \/ ~Strptime(dc).ok
              THEN [exc |-> "ValueError", book |-> NoBook]
              ELSE mk({DaysInclusive(Strptime(ds), Strptime(dc))}))
        ELSE mk({})

\* Book.validate_date of booktracker_typer/db.py, run before the field is typed:
\* TRUE when it raises
ValidateDateRaises(v) == Truthy(v) /\ ~ReMatchDate(v)

\* what validate_date returns
ValidateDate(v) == IF Truthy(v) THEN v ELSE <<>>

\* the two ways of date_completed >= date_started in validate_date_completed
DateLeq(p, q) == Ordinal(p) <= Ordinal(q)

\* what "raise ValidationError(message)" of the validators raises: pydantic's
\* ValidationError has no constructor that takes a message, so building it is a
\* TypeError, which pydantic does not turn into a validation failure
RaisedByValidator == "TypeError"

\* the pydantic Book of booktracker_typer/db.py. A ValueError of fromisoformat
\* inside a validator, and a status outside the Literal, are reported by
\* pydantic as a ValidationError.
BookTyper(a) ==
    LET ds == ValidateDate(a.date_started)
        dc == ValidateDate(a.date_completed)
        days == IF Truthy(ds) /\ Truthy(dc)
                THEN {DaysInclusive(Strptime(ds), Strptime(dc))} ELSE {}
    IN  IF ValidateDateRaises(a.date_started) \/ ValidateDateRaises(a.date_completed)
        THEN [exc |-> RaisedByValidator, book |-> NoBook]
        ELSE IF a.status \notin Status
        THEN [exc |-> "ValidationError", book |-> NoBook]
        ELSE IF Truthy(ds) /\ Truthy(dc)
                /\ (~FromIsoformat(dc).ok \/ ~FromIsoformat(ds).ok)
        THEN [exc |-> "ValidationError", book |-> NoBook]
        ELSE IF Truthy(ds) /\ Truthy(dc)
                /\ ~DateLeq(FromIsoformat(ds), FromIsoformat(dc))
        THEN [exc |-> RaisedByValidator, book |-> NoBook]
        ELSE [exc |-> "none",
              book |-> [id |-> NONE, title |-> a.title, author |-> a.author,
                        status |-> a.status, date_started |-> ds,
                        date_completed |-> dc, days_to_read |-> days]]

\* Book(...) of program p; r is what read_books() gives the CSV program
BookOf(p, a, r) ==
    IF p = "argparse"
    THEN PostInit(NONE, a.title, a.author, a.status, a.date_started, a.date_completed, r)
    ELSE IF p = "click" THEN BookClick(a)
    ELSE BookTyper(a)

\* validate_dates of booktracker_click/booktracker.py
ValidateDates(v) == v = <<>> \/ ReMatchDate(v)

\* date_callback of booktracker_typer/main.py
DateCallback(v) == ReMatchDate(v)

\* the check program p makes of a date given on its command line
DateCheck(p, v) ==
    IF p = "argparse" THEN (IF DateAction(v) THEN "none" ELSE "SystemExit")
    ELSE IF p = "click" THEN (IF ValidateDates(v) THEN "none" ELSE "BadParameter")
    ELSE (IF DateCallback(v) THEN "none" ELSE "BadParameter")

Progs == {"argparse", "click", "typer"}

D0228 == <<"2","0","2","4","-","0","2","-","2","8">>

D0301 == <<"2","0","2","4","-","0","3","-","0","1">>

\* a thirteenth month
D1301 == <<"2","0","2","5","-","1","3","-","0","1">>

\* the date strings tried, the empty string among them
DateStrings == { <<>>, D0101, D0105, D0105x, D0228, D0301, D1301, <<"x">> }

StatusStrings == Status \cup { <<"X">> }

BookArgs ==
    { Arg(<<"a">>, <<"b">>, s, ds, dc) :
        s \in StatusStrings, ds \in DateStrings \cup {NONE}, dc \in DateStrings \cup {NONE} }

\* one construction is tried in each behaviour
Construct ==
    /\ call = NoCall
    /\ \E p \in Progs, a \in BookArgs :
          /\ call' = [prog |-> p, kind |-> "Book", args |-> a]
          /\ res' = BookOf(p, a, ReadBooks(csv))
    /\ UNCHANGED <<csv, out, db, seq, dbout, shelf, stat, query, proc>>

\* one date is checked in each behaviour
CheckDate ==
    /\ call = NoCall
    /\ \E p \in Progs, v \in DateStrings :
          /\ call' = [prog |-> p, kind |-> "date", args |-> Arg(NONE, NONE, NONE, v, NONE)]
          /\ res' = [exc |-> DateCheck(p, v), book |-> NoBook]
    /\ UNCHANGED <<csv, out, db, seq, dbout, shelf, stat, query, proc>>

NextBook == Construct \/ CheckDate

SpecBook == Init /\ [][NextBook]_vars

----------------------------------------------------------------------------
(* The SQLite-backed programs: the table books, the add, edit and delete of
   booktracker_typer/main.py, the add of booktracker_click/booktracker.py and
   the add screen of booktracker_textual/books.py *)

\* the greatest id of table t, 0 for a table without rows
MaxRowid(t) ==
    IF t = {} THEN 0
    ELSE CHOOSE n \in {r.id : r \in t} : \A m \in {r.id : r \in t} : m <= n

\* id INTEGER PRIMARY KEY AUTOINCREMENT: one more than the greatest id the
\* table holds or an INSERT has ever given
NextRowid(t, s) == (IF s > MaxRowid(t) THEN s ELSE MaxRowid(t)) + 1

DbRow(id, a) ==
    [id |-> id, title |-> a.title, author |-> a.author, status |-> a.status,
     date_started |-> a.date_started, date_completed |-> a.date_completed]

\* INSERT INTO books(title, author, status, date_started, date_completed)
Insert(t, s, a) ==
    [db |-> t \cup {DbRow(NextRowid(t, s), a)}, seq |-> NextRowid(t, s)]

\* status_callback of booktracker_typer/main.py: TRUE when it returns the value
StatusCallback(v) == v \in Status

\* add of booktracker_typer/main.py: the callbacks of the options run on the
\* defaults too; a ValidationError of Book(...) is printed and the INSERT
\* follows, any other exception ends the command
TyperAddCmd(t, s, a) ==
    LET o   == [NoDbOut EXCEPT !.prog = "typer", !.cmd = "add", !.args = a]
        b   == BookTyper(a)
        ins == Insert(t, s, a)
    IN  IF ~StatusCallback(a.status)
           \/ ~DateCallback(a.date_started) \/ ~DateCallback(a.date_completed)
        THEN [db |-> t, seq |-> s, out |-> [o EXCEPT !.exc = "BadParameter"]]
        ELSE IF b.exc = "none"
        THEN [db |-> ins.db, seq |-> ins.seq,
              out |-> [o EXCEPT !.built = "Book", !.id = ins.seq]]
        ELSE IF b.exc = "ValidationError"
        THEN [db |-> ins.db, seq |-> ins.seq,
              out |-> [o EXCEPT !.built = "ValidationError",
                                !.msg = "ValidationError", !.id = ins.seq]]
        ELSE [db |-> t, seq |-> s, out |-> [o EXCEPT !.built = b.exc, !.exc = b.exc]]

\* add of booktracker_click/booktracker.py: click.Choice and validate_dates,
\* then Book(...), whose ValueError nothing catches, then the INSERT
ClickAddCmd(t, s, a) ==
    LET o   == [NoDbOut EXCEPT !.prog = "click", !.cmd = "add", !.args = a]
        b   == BookClick(a)
        ins == Insert(t, s, a)
    IN  IF a.status \notin Status
           \/ ~ValidateDates(a.date_started) \/ ~ValidateDates(a.date_completed)
        THEN [db |-> t, seq |-> s, out |-> [o EXCEPT !.exc = "BadParameter"]]
        ELSE IF b.exc # "none"
        THEN [db |-> t, seq |-> s, out |-> [o EXCEPT !.built = b.exc, !.exc = b.exc]]
        ELSE [db |-> ins.db, seq |-> ins.seq,
              out |-> [o EXCEPT !.built = "Book", !.msg = "Added", !.id = ins.seq]]

\* Book(**validation_dict) of booktracker_textual/db.py: the Literal of status
\* is its one check; the dates are kept as the strings they are
BookTextual(a) == IF a.status \notin Status THEN "ValidationError" ELSE "none"

\* BookAddScreen.book_submit_pressed: the INSERT is inside the try
TextualAddCmd(t, s, a) ==
    LET o   == [NoDbOut EXCEPT !.prog = "textual", !.cmd = "add", !.args = a]
        ins == Insert(t, s, a)
    IN  IF BookTextual(a) # "none"
        THEN [db |-> t, seq |-> s,
              out |-> [o EXCEPT !.built = BookTextual(a), !.msg = "notify"]]
        ELSE [db |-> ins.db, seq |-> ins.seq,
              out |-> [o EXCEPT !.built = "Book", !.id = ins.seq]]

\* the row after UPDATE books SET k = ?, ... with the answers that are not blank
Updated(book, inp) ==
    [id             |-> IF inp[1] # <<>> THEN StrToInt(inp[1]) ELSE book.id,
     title          |-> IF inp[2] # <<>> THEN inp[2] ELSE book.title,
     author         |-> IF inp[3] # <<>> THEN inp[3] ELSE book.author,
     status         |-> IF inp[4] # <<>> THEN inp[4] ELSE book.status,
     date_started   |-> IF inp[5] # <<>> THEN inp[5] ELSE book.date_started,
     date_completed |-> IF inp[6] # <<>> THEN inp[6] ELSE book.date_completed]

\* edit of booktracker_typer/main.py: one prompt per column of the row, id
\* included. An id that is no integer, or that another row has, makes the
\* UPDATE raise sqlite3.IntegrityError.
TyperEditCmd(t, id, inp) ==
    LET found == {r \in t : r.id = id}
        book  == CHOOSE r \in found : TRUE
        o     == [NoDbOut EXCEPT !.prog = "typer", !.cmd = "edit", !.id = id]
        asked == [o EXCEPT !.prompts = 6, !.inp = inp]
    IN  IF found = {}
        THEN [db |-> t, out |-> [o EXCEPT !.msg = "There is no book with id"]]
        ELSE IF \A i \in 1..6 : inp[i] = <<>>
        THEN [db |-> t, out |-> asked]
        ELSE IF inp[1] # <<>> /\ ~IntOk(inp[1])
        THEN [db |-> t, out |-> [asked EXCEPT !.exc = "IntegrityError"]]
        ELSE IF inp[1] # <<>> /\ \E r \in t \ found : r.id = StrToInt(inp[1])
        THEN [db |-> t, out |-> [asked EXCEPT !.exc = "IntegrityError"]]
        ELSE [db |-> (t \ found) \cup {Updated(book, inp)}, out |-> asked]

\* delete of booktracker_typer/main.py with the answer to its question
TyperDeleteCmd(t, id, yes) ==
    LET found == {r \in t : r.id = id}
        o     == [NoDbOut EXCEPT !.prog = "typer", !.cmd = "delete", !.id = id]
    IN  IF found = {}
        THEN [db |-> t, out |-> [o EXCEPT !.msg = "There is no book with id"]]
        ELSE IF ~yes THEN [db |-> t, out |-> [o EXCEPT !.prompts = 1, !.answer = "n"]]
        ELSE [db |-> t \ found,
              out |-> [o EXCEPT !.prompts = 1, !.answer = "y", !.msg = "Deleting"]]

\* Book(**book) of get_books in booktracker_click/booktracker.py, for a row
RowBookClick(r) ==
    BookClick(Arg(r.title, r.author, r.status, r.date_started, r.date_completed))

\* delete of booktracker_click/booktracker.py: get_books(field="id", value=id)
\* builds a Book of the row it finds, then the question, then the DELETE
ClickDeleteCmd(t, id, yes) ==
    LET found == {r \in t : r.id = id}
        o     == [NoDbOut EXCEPT !.prog = "click", !.cmd = "delete", !.id = id]
    IN  IF found = {}
        THEN [db |-> t, out |-> [o EXCEPT !.msg = "There is no book with id"]]
        ELSE IF \E r \in found : RowBookClick(r).exc # "none"
        THEN [db |-> t, out |-> [o EXCEPT !.exc = "ValueError"]]
        ELSE IF ~yes THEN [db |-> t, out |-> [o EXCEPT !.prompts = 1, !.answer = "n"]]
        ELSE [db |-> t \ found, out |-> [o EXCEPT !.prompts = 1, !.answer = "y"]]

\* BookDeleteScreen.delete_book_pressed of booktracker_textual/books.py: the
\* confirmation screen is shown for any id, and check_delete runs the DELETE
\* when it is dismissed with True
TextualDeleteCmd(t, id, yes) ==
    LET o == [NoDbOut EXCEPT !.prog = "textual", !.cmd = "delete", !.id = id,
                             !.prompts = 1, !.answer = IF yes THEN "y" ELSE "n"]
    IN  IF yes THEN [db |-> {r \in t : r.id # id}, out |-> o]
        ELSE [db |-> t, out |-> o]

\* the values given to add: no dates, both dates, the dates reversed, a date
\* followed by one more character, and a status that is none of the three
DbAddInputs ==
    { Arg(<<"a">>, <<"b">>, TBR, <<>>, <<>>),
      Arg(<<"a">>, <<"b">>, COMPLETED, D0101, D0105),
      Arg(<<"a">>, <<"b">>, COMPLETED, D0105, D0101),
      Arg(<<"a">>, <<"b">>, COMPLETED, D0105x, D0105),
      Arg(<<"a">>, <<"b">>, <<"X">>, <<>>, <<>>) }

\* the answers to the six prompts of edit
DbEditInputs ==
    { << <<>>, <<>>, <<>>, <<>>, <<>>, <<>> >>,
      << <<>>, <<"c">>, <<>>, <<>>, <<>>, <<>> >>,
      << <<"2">>, <<"c">>, <<>>, <<>>, <<>>, <<>> >>,
      << <<"x">>, <<>>, <<>>, <<>>, <<>>, <<>> >> }

\* the ids given to edit and delete
DbArgIds == 1..MaxDbId

\* a bound of the model: the id the next INSERT gives
RoomInTable == NextRowid(db, seq) <= MaxDbId

TyperAdd ==
    /\ RoomInTable
    /\ \E a \in DbAddInputs :
          LET x == TyperAddCmd(db, seq, a)
          IN  db' = x.db /\ seq' = x.seq /\ dbout' = x.out
    /\ UNCHANGED <<csv, out, call, res, shelf, stat, query, proc>>

ClickAdd ==
    /\ RoomInTable
    /\ \E a \in DbAddInputs :
          LET x == ClickAddCmd(db, seq, a)
          IN  db' = x.db /\ seq' = x.seq /\ dbout' = x.out
    /\ UNCHANGED <<csv, out, call, res, shelf, stat, query, proc>>

TextualAdd ==
    /\ RoomInTable
    /\ \E a \in DbAddInputs :
          LET x == TextualAddCmd(db, seq, a)
          IN  db' = x.db /\ seq' = x.seq /\ dbout' = x.out
    /\ UNCHANGED <<csv, out, call, res, shelf, stat, query, proc>>

TyperEdit ==
    /\ \E id \in DbArgIds, inp \in DbEditInputs :
          LET x == TyperEditCmd(db, id, inp)
          IN  db' = x.db /\ dbout' = x.out
    /\ UNCHANGED <<csv, out, call, res, seq, shelf, stat, query, proc>>

TyperDelete ==
    /\ \E id \in DbArgIds, yes \in BOOLEAN :
          LET x == TyperDeleteCmd(db, id, yes)
          IN  db' = x.db /\ dbout' = x.out
    /\ UNCHANGED <<csv, out, call, res, seq, shelf, stat, query, proc>>

ClickDelete ==
    /\ \E id \in DbArgIds, yes \in BOOLEAN :
          LET x == ClickDeleteCmd(db, id, yes)
          IN  db' = x.db /\ dbout' = x.out
    /\ UNCHANGED <<csv, out, call, res, seq, shelf, stat, query, proc>>

TextualDelete ==
    /\ \E id \in DbArgIds, yes \in BOOLEAN :
          LET x == TextualDeleteCmd(db, id, yes)
          IN  db' = x.db /\ dbout' = x.out
    /\ UNCHANGED <<csv, out, call, res, seq, shelf, stat, query, proc>>

NextDb ==
    \/ TyperAdd \/ ClickAdd \/ TextualAdd
    \/ TyperEdit
    \/ TyperDelete \/ ClickDelete \/ TextualDelete

SpecDb == Init /\ [][NextDb]_vars

\* The CSV program or the SQLite programs, one of the two in a behaviour: the
\* commands of one run only while the store of the other is as Init left it
NextPrograms ==
    \/ (db = {} /\ seq = 0 /\ dbout = NoDbOut /\ Next)
    \/ (csv \in EmptyStores /\ out = NoOut /\ NextDb)

SpecPrograms == Init /\ [][NextPrograms]_vars

\* The same with add and delete alone: the stores that add builds, and the
\* delete of each program on them
NextDelete ==
    \/ (db = {} /\ seq = 0 /\ dbout = NoDbOut /\ (Add \/ Delete))
    \/ (/\ csv \in EmptyStores /\ out = NoOut
        /\ (\/ TyperAdd \/ ClickAdd \/ TextualAdd
            \/ TyperDelete \/ ClickDelete \/ TextualDelete))

SpecDelete == Init /\ [][NextDelete]_vars

----------------------------------------------------------------------------
(* BookStats: the statistics of booktracker_argparse/src/main.py and of the
   SQLite programs, whose three BookStats classes have the same text *)

\* range(1, 13): the months of a year
LastMonth == 12

\* get_ymd(book): the empty set for None, or the one triple (year, month,
\* days_to_read), days_to_read itself a set that is empty for None. The CSV
\* program asks for a days_to_read that is not None and not 0, the SQLite
\* programs for the status COMPLETED.
GetYmd(p, b) ==
    LET d    == FromIsoformat(b.date_completed)
        some == [exc |-> IF d.ok THEN "none" ELSE "ValueError",
                 ymd |-> {<<d.y, d.m, b.days_to_read>>}]
        none == [exc |-> "none", ymd |-> {}]
    IN  IF p = "argparse"
        THEN (IF b.days_to_read # {} /\ b.days_to_read # {0} /\ Truthy(b.date_completed)
              THEN some ELSE none)
        ELSE (IF b.status = COMPLETED /\ Truthy(b.date_completed)
              THEN some ELSE none)

\* [book for book in self.ymd if book]: the triples of the books that have one
RECURSIVE Projected(_, _)
Projected(p, books) ==
    IF books = <<>> THEN <<>>
    ELSE LET g == GetYmd(p, Head(books)).ymd
         IN  (IF g = {} THEN <<>> ELSE <<CHOOSE t \in g : TRUE>>)
             \o Projected(p, Tail(books))

\* BookStats(books): self.ymd, or the exception of a get_ymd
BookStats(p, books) ==
    IF \E i \in 1..Len(books) : GetYmd(p, books[i]).exc # "none"
    THEN [exc |-> "ValueError", ymd |-> <<>>]
    ELSE [exc |-> "none", ymd |-> Projected(p, books)]

RECURSIVE SumDays(_)
SumDays(tr) ==
    IF tr = <<>> THEN 0
    ELSE (CHOOSE n \in tr[1][3] : TRUE) + SumDays(Tail(tr))

\* a mean cut off after its second decimal
TruncatedMean(sum, n) == (100 * sum) \div n

\* round(mean(xs), 2) of n integers of the given sum, in hundredths. A mean that
\* lies halfway between two hundredths needs n to be a multiple of 8, which
\* the shelves of the model do not reach; it is rounded to the even one.
RoundedMean(sum, n) ==
    LET q == (100 * sum) \div n
        r == (100 * sum) % n
    IN  IF 2 * r > n THEN q + 1
        ELSE IF 2 * r < n THEN q
        ELSE (IF q % 2 = 0 THEN q ELSE q + 1)

\* count and avg_days_to_read of books_read: mean raises TypeError on a
\* days_to_read that is None
Aggregate(tr) ==
    IF Len(tr) = 0 THEN [exc |-> "none", count |-> 0, avg |-> {}]
    ELSE IF \E i \in 1..Len(tr) : tr[i][3] = {}
    THEN [exc |-> "TypeError", count |-> Len(tr), avg |-> {}]
    ELSE [exc |-> "none", count |-> Len(tr),
          avg |-> {RoundedMean(SumDays(tr), Len(tr))}]

InMonth(year, month, t) == t[1] = year /\ t[2] = month

\* a filter that lets the books of every year through
AnyYear(year, t) == t[1] = t[1]

InYear(year, t) == t[1] = year

\* month_stats(year, month)
MonthStats(ymd, year, month) ==
    LET a == Aggregate(SelectSeq(ymd, LAMBDA t : InMonth(year, month, t)))
    IN  [exc  |-> a.exc,
         rows |-> IF a.exc # "none" THEN <<>>
                  ELSE <<[year |-> year, month |-> month, count |-> a.count,
                          avg_days_to_read |-> a.avg]>>]

\* a breakdown that leaves out the months without books and stops at the
\* first month that has some
FirstMonthWithBooks(ymd, year, m) ==
    LET some == {k \in m..LastMonth :
                    /\ MonthStats(ymd, year, k).exc = "none"
                    /\ MonthStats(ymd, year, k).rows[1].count > 0}
    IN  IF some = {} THEN [exc |-> "none", rows |-> <<>>]
        ELSE MonthStats(ymd, year, CHOOSE k \in some : \A j \in some : k <= j)

\* [self.month_stats(year, month) for month in range(m, 13)], flattened
RECURSIVE MonthsFrom(_, _, _)
MonthsFrom(ymd, year, m) ==
    IF m > LastMonth THEN [exc |-> "none", rows |-> <<>>]
    ELSE LET one  == MonthStats(ymd, year, m)
             rest == MonthsFrom(ymd, year, m + 1)
         IN  IF one.exc # "none" THEN [exc |-> one.exc, rows |-> <<>>]
             ELSE IF rest.exc # "none" THEN rest
             ELSE [exc |-> "none", rows |-> one.rows \o rest.rows]

\* year_stats(year, detailed): the count and the average of the year are
\* computed before detailed is looked at
YearStats(ymd, year, detailed) ==
    LET a == Aggregate(SelectSeq(ymd, LAMBDA t : InYear(year, t)))
    IN  IF a.exc # "none" THEN [exc |-> a.exc, rows |-> <<>>]
        ELSE IF detailed THEN MonthsFrom(ymd, year, 1)
        ELSE [exc  |-> "none",
              rows |-> <<[year |-> year, count |-> a.count,
                          avg_days_to_read |-> a.avg]>>]

\* {book[0] for book in self.ymd if book}
YearsOf(ymd) == {ymd[i][1] : i \in 1..Len(ymd)}

\* the sequences in which a set of years can be iterated
Orders(years) ==
    {o \in [1..Cardinality(years) -> years] :
        \A i, j \in 1..Cardinality(years) : i # j => o[i] # o[j]}

\* detailed_stats() (complete_stats in the SQLite programs), the set of years
\* iterated in the given order
RECURSIVE YearsFrom(_, _, _)
YearsFrom(ymd, order, k) ==
    IF k > Len(order) THEN [exc |-> "none", rows |-> <<>>]
    ELSE LET one  == MonthsFrom(ymd, order[k], 1)
             rest == YearsFrom(ymd, order, k + 1)
         IN  IF one.exc # "none" THEN [exc |-> one.exc, rows |-> <<>>]
             ELSE IF rest.exc # "none" THEN rest
             ELSE [exc |-> "none", rows |-> one.rows \o rest.rows]

DetailedStats(ymd, order) == YearsFrom(ymd, order, 1)

\* print_rich_table(stats): stats[0] of an empty list is an IndexError
PrintRichTable(st) ==
    IF st.exc # "none" THEN st
    ELSE IF Len(st.rows) = 0 THEN [exc |-> "IndexError", rows |-> <<>>]
    ELSE st

\* the "stats" branch of main() of the CSV program on the books that
\* read_books() returned; year and month are 0 when the option is not given.
\* stats is bound only when there are books.
StatsCommand(books, detailed, year, month, order) ==
    LET bs    == BookStats("argparse", books)
        quiet == [exc |-> "none", msg |-> "", rows |-> <<>>]
        table(st) == [exc |-> PrintRichTable(st).exc, msg |-> "",
                      rows |-> PrintRichTable(st).rows]
    IN  IF Len(books) > 0 /\ bs.exc # "none" THEN [quiet EXCEPT !.exc = bs.exc]
        ELSE IF ~detailed /\ year = 0 /\ month = 0
        THEN [quiet EXCEPT !.msg = "Choose"]
        ELSE IF year = 0 /\ month # 0 /\ ~detailed
        THEN [quiet EXCEPT !.msg = "You must provide a year and a month."]
        ELSE IF Len(books) = 0
        THEN [quiet EXCEPT !.exc = "UnboundLocalError",
                           !.msg = IF year = 0 /\ month # 0
                                   THEN "You must provide a year and a month."
                                   ELSE ""]
        ELSE IF year # 0 /\ month = 0 THEN table(YearStats(bs.ymd, year, detailed))
        ELSE IF year # 0 THEN table(MonthStats(bs.ymd, year, month))
        ELSE [table(DetailedStats(bs.ymd, order)) EXCEPT
                 !.msg = IF month # 0 THEN "You must provide a year and a month."
                         ELSE ""]

\* Book(**d) of booktracker_textual/db.py with its days_to_read, for the rows
\* of the model, whose status is one of the three
BookOfRow(a) == BookClick(a).book

\* BookStatsScreen.on_mount of booktracker_textual/books.py: the rows of the
\* complete table; year_table_stats[0] of no year at all is an IndexError
StatsScreen(books, order) ==
    LET bs == BookStats("textual", books)
        cs == DetailedStats(bs.ymd, order)
    IN  IF bs.exc # "none" THEN [exc |-> bs.exc, msg |-> "", rows |-> <<>>]
        ELSE IF cs.exc # "none" THEN [exc |-> cs.exc, msg |-> "", rows |-> <<>>]
        ELSE IF YearsOf(bs.ymd) = {} THEN [exc |-> "IndexError", msg |-> "", rows |-> <<>>]
        ELSE IF \E y \in YearsOf(bs.ymd) : YearStats(bs.ymd, y, FALSE).exc # "none"
        THEN [exc |-> "TypeError", msg |-> "", rows |-> <<>>]
        ELSE [exc |-> "none", msg |-> "", rows |-> cs.rows]

----------------------------------------------------------------------------
(* The statistics as a state machine: a shelf of books is there from the
   start, and one request is made of it in each behaviour *)

MaxShelf == 3

D0103 == <<"2","0","2","5","-","0","1","-","0","3">>

D0203 == <<"2","0","2","5","-","0","2","-","0","3">>

\* the books a shelf is made of: read in five days and in three days of
\* January 2025, completed then without a start, never begun but dated, begun
\* and not completed, read in three days that end in March 2024, and read
\* from January to February 2025
ShelfKinds ==
    { Arg(<<"a">>, <<"b">>, COMPLETED, D0101, D0105),
      Arg(<<"a">>, <<"b">>, COMPLETED, D0103, D0105),
      Arg(<<"a">>, <<"b">>, COMPLETED, <<>>, D0105),
      Arg(<<"a">>, <<"b">>, TBR, D0101, D0105),
      Arg(<<"a">>, <<"b">>, IN_PROGRESS, D0101, <<>>),
      Arg(<<"a">>, <<"b">>, COMPLETED, D0228, D0301),
      Arg(<<"a">>, <<"b">>, COMPLETED, D0101, D0203) }

Shelves == UNION {[1..n -> ShelfKinds] : n \in 0..MaxShelf}

\* the programs whose BookStats differ; booktracker_click has the text of
\* booktracker_typer
StatProgs == {"argparse", "typer"}

StatYears == {2024, 2025}

StatMonths == {1, 2, 3}

Reverse(q) == [i \in 1..Len(q) |-> q[Len(q) + 1 - i]]

\* the Books program p reads from a store to which the books of the shelf
\* were added; load_books of booktracker_textual reads them ORDER BY id DESC
BooksOf(p, sh) ==
    IF p = "textual" THEN Reverse([i \in 1..Len(sh) |-> BookOfRow(sh[i])])
    ELSE [i \in 1..Len(sh) |-> BookOf(p, sh[i], [exc |-> "none", books |-> <<>>]).book]

InitStats ==
    /\ csv = [exists |-> FALSE, rows |-> <<>>]
    /\ out = NoOut
    /\ call = NoCall
    /\ res = NoRes
    /\ db = {}
    /\ seq = 0
    /\ dbout = NoDbOut
    /\ shelf \in Shelves
    /\ stat = NoStat
    /\ query = NoQuery
    /\ proc = NoProcs

Asked(p, kind, year, month, detailed, order, r) ==
    [prog |-> p, kind |-> kind, year |-> year, month |-> month,
     detailed |-> detailed, order |-> order, exc |-> r.exc, msg |-> "",
     rows |-> r.rows]

\* BookStats(books).month_stats(year, month)
CallMonthStats ==
    /\ stat = NoStat
    /\ \E p \in StatProgs, y \in StatYears, m \in StatMonths :
          LET bs == BookStats(p, BooksOf(p, shelf))
          IN  stat' = Asked(p, "month_stats", y, m, FALSE, <<>>,
                            MonthStats(bs.ymd, y, m))
    /\ UNCHANGED <<csv, out, call, res, db, seq, dbout, shelf, query, proc>>

\* BookStats(books).year_stats(year, detailed)
CallYearStats ==
    /\ stat = NoStat
    /\ \E p \in StatProgs, y \in StatYears, d \in BOOLEAN :
          LET bs == BookStats(p, BooksOf(p, shelf))
          IN  stat' = Asked(p, "year_stats", y, 0, d, <<>>,
                            YearStats(bs.ymd, y, d))
    /\ UNCHANGED <<csv, out, call, res, db, seq, dbout, shelf, query, proc>>

\* BookStats(books).detailed_stats(), in whatever order the set of years is
\* iterated
CallDetailedStats ==
    /\ stat = NoStat
    /\ \E p \in StatProgs :
          LET bs == BookStats(p, BooksOf(p, shelf))
          IN  \E o \in Orders(YearsOf(bs.ymd)) :
                 stat' = Asked(p, "detailed_stats", 0, 0, TRUE, o,
                               DetailedStats(bs.ymd, o))
    /\ UNCHANGED <<csv, out, call, res, db, seq, dbout, shelf, query, proc>>

\* the stats command of the CSV program
StatsCmd ==
    /\ stat = NoStat
    /\ \E d \in BOOLEAN, y \in {0, 2025}, m \in {0, 1} :
          LET books == BooksOf("argparse", shelf)
          IN  \E o \in Orders(YearsOf(BookStats("argparse", books).ymd)) :
                 LET r == StatsCommand(books, d, y, m, o)
                 IN  stat' = [Asked("argparse", "stats", y, m, d, o, r)
                                 EXCEPT !.msg = r.msg]
    /\ UNCHANGED <<csv, out, call, res, db, seq, dbout, shelf, query, proc>>

\* the statistics screen of booktracker_textual is opened
StatsMount ==
    /\ stat = NoStat
    /\ LET books == BooksOf("textual", shelf)
       IN  \E o \in Orders(YearsOf(BookStats("textual", books).ymd)) :
              stat' = Asked("textual", "on_mount", 0, 0, TRUE, o,
                            StatsScreen(books, o))
    /\ UNCHANGED <<csv, out, call, res, db, seq, dbout, shelf, query, proc>>

NextStats ==
    \/ CallMonthStats \/ CallYearStats \/ CallDetailedStats
    \/ StatsCmd \/ StatsMount

SpecStats == InitStats /\ [][NextStats]_vars

----------------------------------------------------------------------------
(* The read commands of the CSV program and of booktracker_typer *)

\* filter_books(field, value) on what read_books() returned or raised; field is
\* "" and value is None when the option is not given
FilterBooks(r, field, value) ==
    IF r.exc # "none" THEN [exc |-> r.exc, books |-> <<>>]
    ELSE IF field # "" /\ Truthy(value)
    THEN [exc   |-> "none",
          books |-> SelectSeq(r.books,
                              LAMBDA b : Contains(Lower(value), Lower(b[field])))]
    ELSE [exc |-> "none", books |-> r.books]

\* the "read" branch of main(): the books of the table it prints
ReadCmd(f, field, value) == FilterBooks(ReadBooks(f), field, value)

\* SELECT * FROM books: the rows in the order of their ids
RECURSIVE SortedRows(_)
SortedRows(t) ==
    IF t = {} THEN <<>>
    ELSE LET r == CHOOSE x \in t : \A y \in t : x.id <= y.id
         IN  <<r>> \o SortedRows(t \ {r})

\* s LIKE '%value%' for a value without % and _; NULL is like nothing
Like(value, s) == s # NONE /\ Contains(Lower(value), Lower(s))

\* get_books(field, value) of booktracker_typer/main.py: id is compared as a
\* whole, the other fields with LIKE; with no row the function falls off its
\* end and returns None, told by the field none
GetBooks(t, field, value) ==
    LET all   == SortedRows(t)
        rows  == IF field # "" /\ Truthy(value)
                 THEN (IF field = "id"
                       THEN SelectSeq(all, LAMBDA r : IntOk(value) /\ r.id = StrToInt(value))
                       ELSE SelectSeq(all, LAMBDA r : Like(value, r[field])))
                 ELSE all
        built == [i \in 1..Len(rows) |->
                     BookTyper(Arg(rows[i].title, rows[i].author, rows[i].status,
                                   rows[i].date_started, rows[i].date_completed))]
        bad   == {i \in 1..Len(rows) : built[i].exc # "none"}
    IN  IF rows = <<>> THEN [exc |-> "none", none |-> TRUE, books |-> <<>>]
        ELSE IF bad # {}
        THEN [exc |-> built[CHOOSE i \in bad : \A j \in bad : i <= j].exc,
              none |-> FALSE, books |-> <<>>]
        ELSE [exc |-> "none", none |-> FALSE,
              books |-> [i \in 1..Len(rows) |->
                            [built[i].book EXCEPT !.id = rows[i].id]]]

\* read of booktracker_typer/main.py: "for book in books" over None is a
\* TypeError
TyperReadCmd(t, field, value) ==
    LET g == GetBooks(t, field, value)
    IN  IF g.exc # "none" THEN [exc |-> g.exc, books |-> <<>>]
        ELSE IF g.none THEN [exc |-> "TypeError", books |-> <<>>]
        ELSE [exc |-> "none", books |-> g.books]

\* the options -f and -v tried: none, an id, a title, and a field alone
QueryInputs ==
    { <<"", NONE>>, <<"id", <<"1">> >>, <<"title", <<"c">> >>, <<"id", NONE>> }

Asking(p, q, r) ==
    [prog |-> p, field |-> q[1], value |-> q[2], exc |-> r.exc, books |-> r.books]

\* a read command ends the session
Read ==
    /\ query = NoQuery
    /\ db = {} /\ seq = 0 /\ dbout = NoDbOut
    /\ \E q \in QueryInputs : query' = Asking("argparse", q, ReadCmd(csv, q[1], q[2]))
    /\ UNCHANGED <<csv, out, call, res, db, seq, dbout, shelf, stat, proc>>

TyperRead ==
    /\ query = NoQuery
    /\ csv \in EmptyStores /\ out = NoOut
    /\ \E q \in QueryInputs : query' = Asking("typer", q, TyperReadCmd(db, q[1], q[2]))
    /\ UNCHANGED <<csv, out, call, res, db, seq, dbout, shelf, stat, proc>>

NextQuery ==
    \/ (/\ query = NoQuery /\ db = {} /\ seq = 0 /\ dbout = NoDbOut
        /\ (Add \/ Edit))
    \/ (/\ query = NoQuery /\ csv \in EmptyStores /\ out = NoOut
        /\ (TyperAdd \/ TyperEdit))
    \/ Read
    \/ TyperRead

SpecQuery == Init /\ [][NextQuery]_vars

----------------------------------------------------------------------------
(* Two add commands of the CSV program at the same time: each one reads the
   store in Book.__post_init__, computes its id from what it read, and appends
   its row in write_book; nothing keeps the other one out in between *)

\* the arguments of the two commands, which pass the checks of the parser
RaceInputs ==
    { Arg(<<"a">>, <<"b">>, TBR, NONE, NONE),
      Arg(<<"c">>, <<"b">>, COMPLETED, D0101, D0105) }

InitRace ==
    /\ csv = [exists |-> TRUE, rows |-> <<StoredFields>>]
    /\ out = NoOut
    /\ call = NoCall
    /\ res = NoRes
    /\ db = {}
    /\ seq = 0
    /\ dbout = NoDbOut
    /\ shelf = <<>>
    /\ stat = NoStat
    /\ query = NoQuery
    /\ proc = NoProcs

\* books = read_books() of __post_init__
ProcRead(p) ==
    /\ proc[p].pc = "start"
    /\ Len(csv.rows) + Cardinality({q \in Procs : proc[q].pc \in {"read", "built"}})
          <= MaxBooks
    /\ \E a \in RaceInputs :
          proc' = [proc EXCEPT ![p].pc = "read", ![p].args = a,
                               ![p].r = ReadBooks(csv)]
    /\ UNCHANGED <<csv, out, call, res, db, seq, dbout, shelf, stat, query>>

\* the rest of __post_init__: the id is one more than the last id read
ProcBuild(p) ==
    /\ proc[p].pc = "read"
    /\ LET a == proc[p].args
           b == PostInit(NONE, a.title, a.author, a.status, a.date_started,
                         a.date_completed, proc[p].r)
       IN  proc' = [proc EXCEPT ![p].pc = IF b.exc = "none" THEN "built" ELSE "failed",
                                ![p].book = b.book, ![p].exc = b.exc]
    /\ UNCHANGED <<csv, out, call, res, db, seq, dbout, shelf, stat, query>>

\* write_book(new_book)
ProcWrite(p) ==
    /\ proc[p].pc = "built"
    /\ csv' = WriteBook(csv, proc[p].book)
    /\ proc' = [proc EXCEPT ![p].pc = "done"]
    /\ UNCHANGED <<out, call, res, db, seq, dbout, shelf, stat, query>>

\* add commands one after the other first, then the two side by side
NextRace ==
    \/ (proc = NoProcs /\ Add)
    \/ \E p \in Procs : ProcRead(p)
    \/ \E p \in Procs : ProcBuild(p)
    \/ \E p \in Procs : ProcWrite(p)

SpecRace == InitRace /\ [][NextRace]_vars

----------------------------------------------------------------------------
(* What the claims speak of *)

\* the ids of the records of the file, as csv.DictReader sees them
StoredIds(f) ==
    IF ~f.exists \/ Len(f.rows) = 0 THEN <<>>
    ELSE IF ~HasColumn(f.rows[1], ID) THEN <<>>
    ELSE [i \in 1..(Len(f.rows) - 1) |-> Column(f.rows[1], f.rows[i + 1], ID)]

\* the records of the file, without their order
StoredRecords(f) ==
    IF ~f.exists \/ Len(f.rows) = 0 THEN {}
    ELSE {[n \in 1..6 |-> IF HasColumn(f.rows[1], StoredFields[n])
                          THEN Column(f.rows[1], f.rows[i], StoredFields[n])
                          ELSE NONE] : i \in 2..Len(f.rows)}

\* max(existing ids) + 1, or 1 for a store without records
MaxPlusOne(f) ==
    LET ids == {StrToInt(StoredIds(f)[i]) : i \in 1..Len(StoredIds(f))}
    IN  IF ids = {} THEN <<"1">>
        ELSE IntToStr((CHOOSE n \in ids : \A m \in ids : m <= n) + 1)

\* the months of the calendar, counted without the ordinals of the program
MonthLength(y, m) ==
    <<31, IF y % 4 = 0 /\ (y % 100 # 0 \/ y % 400 = 0) THEN 29 ELSE 28,
      31, 30, 31, 30, 31, 31, 30, 31, 30, 31>>[m]

CalendarDays ==
    {<<y, m, d>> \in (2023..2025) \X (1..12) \X (1..31) : d <= MonthLength(y, m)}

Earlier(a, b) ==
    \/ a[1] < b[1]
    \/ a[1] = b[1] /\ a[2] < b[2]
    \/ a[1] = b[1] /\ a[2] = b[2] /\ a[3] < b[3]

\* a string of the form YYYY-MM-DD, and nothing after
ExactDateForm(s) == s # NONE /\ Len(s) = 10 /\ ReMatchDate(s)

\* the day a string of that form names
Ymd(s) ==
    <<StrToInt(SubSeq(s, 1, 4)), StrToInt(SubSeq(s, 6, 7)), StrToInt(SubSeq(s, 9, 10))>>

IsCalendarDate(s) == ExactDateForm(s) /\ Ymd(s) \in CalendarDays

\* the days from a to b, counted one by one on the calendar
DaysFromTo(a, b) ==
    IF Earlier(b, a)
    THEN 0 - Cardinality({x \in CalendarDays : ~Earlier(x, b) /\ Earlier(x, a)})
    ELSE Cardinality({x \in CalendarDays : ~Earlier(x, a) /\ Earlier(x, b)})

BothDates(a) == Truthy(a.date_started) /\ Truthy(a.date_completed)

\* no two records of the file have the same id
DistinctIds(f) ==
    \A i, j \in 1..Len(StoredIds(f)) : i # j => StoredIds(f)[i] # StoredIds(f)[j]

\* the books of the shelf with status COMPLETED whose date_completed lies in
\* month m of year y, by their places
CompletedIn(sh, y, m) ==
    {i \in 1..Len(sh) :
        /\ sh[i].status = COMPLETED
        /\ IsCalendarDate(sh[i].date_completed)
        /\ Ymd(sh[i].date_completed)[1] = y
        /\ Ymd(sh[i].date_completed)[2] = m}

\* the shelf without the books that are not COMPLETED
OnlyCompleted(sh) == SelectSeq(sh, LAMBDA a : a.status = COMPLETED)

\* what the request recorded in st answers on the books of shelf sh
AnswerOn(st, sh) ==
    LET bs == BookStats(st.prog, BooksOf(st.prog, sh))
    IN  IF st.kind = "month_stats" THEN MonthStats(bs.ymd, st.year, st.month)
        ELSE IF st.kind = "year_stats" THEN YearStats(bs.ymd, st.year, st.detailed)
        ELSE DetailedStats(bs.ymd, st.order)

\* the books of the shelf that have both dates, by their places
Dated(sh) ==
    {i \in 1..Len(sh) :
        IsCalendarDate(sh[i].date_started) /\ IsCalendarDate(sh[i].date_completed)}

\* the books the CSV program counts in the group of a row: those of the dated
\* books D whose date_completed lies in the year of the row, and in its month
\* when the row has one
CountedIn(sh, D, row) ==
    {i \in D :
        /\ Ymd(sh[i].date_completed)[1] = row.year
        /\ ("month" \in DOMAIN row => Ymd(sh[i].date_completed)[2] = row.month)}

\* the days of the calendar from date_started to date_completed, both counted,
\* summed over the books at the places in I
TotalDays(sh, I) ==
    Cardinality(UNION {LET a == Ymd(sh[i].date_started)
                           b == Ymd(sh[i].date_completed)
                       IN  {<<i, x>> : x \in {y \in CalendarDays :
                                                 ~Earlier(y, a) /\ ~Earlier(b, y)}}
                       : i \in I})

\* a, in hundredths, is the quotient sum / n rounded to two decimals
NearestHundredth(a, sum, n) ==
    /\ 2 * (100 * sum - a * n) <= n
    /\ 2 * (a * n - 100 * sum) <= n

\* the shelf has no COMPLETED book with a date_completed
NoneQualifies(sh) ==
    \A i \in 1..Len(sh) : ~(sh[i].status = COMPLETED /\ Truthy(sh[i].date_completed))

\* the years in which a qualifying book of the shelf was completed
QualifyingYears(sh) ==
    {Ymd(sh[i].date_completed)[1] :
        i \in {j \in 1..Len(sh) : sh[j].status = COMPLETED
                                  /\ IsCalendarDate(sh[j].date_completed)}}

\* a date that is not there, written in one way
NoDateAs(d) == IF Truthy(d) THEN d ELSE <<>>

\* what identifies a book or a stored record: its six stored fields, the id
\* of program p written as text
SixFields(p, b) ==
    [id |-> IF p = "typer" THEN NatToStr(b.id) ELSE b.id, title |-> b.title, author |-> b.author, status |-> b.status,
     date_started |-> NoDateAs(b.date_started),
     date_completed |-> NoDateAs(b.date_completed)]

\* the records of the store of program p, in store order
StoredBooks(p) ==
    IF p = "typer" THEN [i \in 1..Len(SortedRows(db)) |-> SixFields(p, SortedRows(db)[i])]
    ELSE [i \in 1..Len(StoredIds(csv)) |->
             [id             |-> Column(csv.rows[1], csv.rows[i + 1], ID),
              title          |-> Column(csv.rows[1], csv.rows[i + 1], TITLE),
              author         |-> Column(csv.rows[1], csv.rows[i + 1], AUTHOR),
              status         |-> Column(csv.rows[1], csv.rows[i + 1], STATUS),
              date_started   |-> Column(csv.rows[1], csv.rows[i + 1], DATE_STARTED),
              date_completed |-> Column(csv.rows[1], csv.rows[i + 1], DATE_COMPLETED)]]

\* the stored records a query should return
Wanted(q) ==
    IF q.field # "" /\ Truthy(q.value)
    THEN SelectSeq(StoredBooks(q.prog), LAMBDA b : Contains(q.value, b[q.field]))
    ELSE StoredBooks(q.prog)

\* a stored record x, as in StoredRecords, is valid: a status of the three,
\* dates that are empty or dates of the calendar, and no completion before
\* the start
ValidRecord(x) ==
    /\ x[4] \in Status
    /\ x[5] = <<>> \/ IsCalendarDate(x[5])
    /\ x[6] = <<>> \/ IsCalendarDate(x[6])
    /\ (IsCalendarDate(x[5]) /\ IsCalendarDate(x[6])) => ~Earlier(Ymd(x[6]), Ymd(x[5]))

RECURSIVE SumCounts(_)
SumCounts(rows) ==
    IF rows = <<>> THEN 0 ELSE Head(rows).count + SumCounts(Tail(rows))

----------------------------------------------------------------------------
(* The claims *)

\* C1: after any sequence of add, edit and delete on the CSV store, no two
\* records of the store have the same id.
C1_UniqueIds ==
    \A i, j \in 1..Len(StoredIds(csv)) :
        i # j => StoredIds(csv)[i] # StoredIds(csv)[j]

\* C2: a Book built by add without an id gets the greatest id of the store
\* plus one, or 1 in a store without records, whatever the order of the records.
C2_IdIsMaxPlusOne ==
    [][(out'.cmd = "add" /\ out'.msg = "Added") => out'.id = MaxPlusOne(csv)]_vars

\* C3: the record that edit(id) found and rewrote (edit_book appends it to the
\* file) has, after the edit, the id it had before.
C3_EditKeepsId ==
    [][(out'.cmd = "edit" /\ out'.prompts > 0)
          => StoredIds(csv')[Len(StoredIds(csv'))] = out'.id]_vars

\* C4: a constructed Book has days_to_read = the days from date_started to
\* date_completed plus one when both dates are given, and None when either is
\* None or empty; it is at least 1 when date_completed is not the earlier one.
C4_DaysToRead ==
    (call.kind = "Book" /\ res.exc = "none") =>
        IF BothDates(call.args)
        THEN /\ IsCalendarDate(call.args.date_started)
             /\ IsCalendarDate(call.args.date_completed)
             /\ res.book.days_to_read =
                  {DaysFromTo(Ymd(call.args.date_started),
                              Ymd(call.args.date_completed)) + 1}
             /\ (~Earlier(Ymd(call.args.date_completed), Ymd(call.args.date_started))
                    => \A n \in res.book.days_to_read : n >= 1)
        ELSE res.book.days_to_read = {}

\* a Book of the CSV program over the leap day: 2024-02-28 to 2024-03-01 is 3 days
C4_Witness ==
    /\ call.kind = "Book" /\ call.prog = "argparse" /\ res.exc = "none"
    /\ call.args.date_started = D0228 /\ call.args.date_completed = D0301
    /\ res.book.days_to_read = {3}

\* C5: constructing a Book with a status among the three and a date_completed
\* earlier than its date_started fails and yields no Book, so that no
\* constructed Book has a days_to_read below 1.
C5_RejectsReversedDates ==
    (/\ call.kind = "Book"
     /\ call.args.status \in Status
     /\ IsCalendarDate(call.args.date_started)
     /\ IsCalendarDate(call.args.date_completed)
     /\ Earlier(Ymd(call.args.date_completed), Ymd(call.args.date_started)))
        => res.exc # "none"

\* C6: constructing a Book with a status outside TBR, IN_PROGRESS, COMPLETED is
\* rejected, and every constructed Book has a status among the three.
C6_RejectsBadStatus ==
    call.kind = "Book" =>
        /\ call.args.status \notin Status => res.exc # "none"
        /\ res.exc = "none" => res.book.status \in Status

\* C7: a date string that is not empty and not exactly of the form YYYY-MM-DD
\* is rejected by the date check of the command line.
C7_RejectsMalformedDate ==
    (/\ call.kind = "date"
     /\ call.args.date_started # <<>>
     /\ ~ExactDateForm(call.args.date_started))
        => res.exc # "none"

\* C8: an add with a status among the three and with neither date given is
\* accepted and leaves a new row in the table, its two dates empty.
C8_DatesOptional ==
    [][(/\ dbout'.cmd = "add"
        /\ dbout'.args.status \in Status
        /\ ~Truthy(dbout'.args.date_started)
        /\ ~Truthy(dbout'.args.date_completed))
          => /\ dbout'.exc = "none"
             /\ \E r \in db' \ db :
                   /\ r.title = dbout'.args.title
                   /\ r.author = dbout'.args.author
                   /\ r.date_started = <<>> /\ r.date_completed = <<>>]_vars

\* C9: when the Book(...) of an add raises, the table after the add is the
\* table before it.
C9_NoInsertOnFailure ==
    [][(dbout'.cmd = "add" /\ dbout'.built \notin {"none", "Book"})
          => db' = db /\ seq' = seq]_vars

\* C11: a delete(id) of an id that a record of the store has, confirmed by the
\* user, ends without an exception; after it no record of the store has that
\* id and the other records are the ones of before, the case of the only record
\* of the store included.
C11_DeleteRemoves ==
    [][(/\ out'.cmd = "delete" /\ out'.answer = "y"
        /\ \E i \in 1..Len(StoredIds(csv)) : StoredIds(csv)[i] = out'.arg)
          => /\ out'.exc = "none"
             /\ \A i \in 1..Len(StoredIds(csv')) : StoredIds(csv')[i] # out'.arg
             /\ StoredRecords(csv') = {x \in StoredRecords(csv) : x[1] # out'.arg}]_vars

\* C12: a delete(id) whose question is not answered with yes leaves the store
\* as it was, in the CSV program and in the SQLite programs: a record is
\* removed only after the answer yes.
C12_DeleteNeedsConfirmation ==
    [][/\ (out'.cmd = "delete" /\ out'.answer # "y") => csv' = csv
       /\ (dbout'.cmd = "delete" /\ dbout'.answer # "y") => (db' = db /\ seq' = seq)]_vars

\* the user of the CSV program said no to the deletion of a record that is there
C12_Witness ==
    /\ out.cmd = "delete" /\ out.answer = "n" /\ out.prompts = 1
    /\ \E i \in 1..Len(StoredIds(csv)) : StoredIds(csv)[i] = out.arg

\* C13: after edit(id) of a record of a store without duplicate ids, with the id prompt left
\* blank, the record holds the typed value in each field whose answer was not
\* blank and its value of before in the others, every other record is the one
\* of before and the number of records is the same; so an edit with every
\* answer blank leaves the records of the store as they were.
C13_EditKeepsBlank ==
    [][/\ (/\ out'.cmd = "edit"
           /\ ReadBooks(csv).exc = "none"
           /\ DistinctIds(csv)
           /\ \E i \in 1..Len(StoredIds(csv)) : StoredIds(csv)[i] = out'.arg)
          => /\ out'.prompts = 6
             /\ out'.inp[1] = <<>> =>
                  /\ out'.exc = "none"
                  /\ Len(StoredIds(csv')) = Len(StoredIds(csv))
                  /\ \E old \in StoredRecords(csv) :
                        /\ old[1] = out'.arg
                        /\ StoredRecords(csv') =
                             {x \in StoredRecords(csv) : x[1] # out'.arg}
                             \cup {[n \in 1..6 |-> IF out'.inp[n] # <<>>
                                                   THEN out'.inp[n] ELSE old[n]]}
       /\ (dbout'.cmd = "edit" /\ \E r \in db : r.id = dbout'.id)
          => /\ dbout'.prompts = 6
             /\ dbout'.inp[1] = <<>> =>
                  /\ dbout'.exc = "none"
                  /\ \E old \in db :
                        /\ old.id = dbout'.id
                        /\ db' = (db \ {old}) \cup {Updated(old, dbout'.inp)}]_vars

\* C10: edit(id) and delete(id), with an id that no record of the store has,
\* print 'There is no book with id', ask nothing and leave the records of the
\* store as they are.
C10_NotFound ==
    [][(/\ out'.cmd \in {"edit", "delete"}
        /\ ReadBooks(csv).exc = "none"
        /\ \A i \in 1..Len(StoredIds(csv)) : StoredIds(csv)[i] # out'.arg)
          => /\ out'.msg = "There is no book with id"
             /\ out'.prompts = 0
             /\ StoredRecords(csv') = StoredRecords(csv)]_vars

\* C14: for every shelf of books and every year and month, month_stats does not
\* raise, and the count of its row is the number of COMPLETED books whose
\* date_completed lies in that year and month, with or without a date_started.
C14_GroupCount ==
    stat.kind = "month_stats"
        => /\ stat.exc = "none"
           /\ Len(stat.rows) = 1
           /\ stat.rows[1].count = Cardinality(CompletedIn(shelf, stat.year, stat.month))

\* C15: a book whose status is TBR or IN_PROGRESS contributes to no row of
\* month_stats, year_stats or detailed_stats, whatever dates it carries: the
\* answer on a shelf is the answer on the shelf without such books.
C15_NonCompletedExcluded ==
    stat.kind \in {"month_stats", "year_stats", "detailed_stats"}
        => /\ stat.exc = AnswerOn(stat, OnlyCompleted(shelf)).exc
           /\ stat.rows = AnswerOn(stat, OnlyCompleted(shelf)).rows

\* C16: in every row that month_stats or year_stats of the CSV program gives
\* for a group that is not empty, avg_days_to_read is the sum of days_to_read
\* of the books counted in the group divided by their number, rounded to two
\* decimals; two COMPLETED books of January 2025 read in 5 and in 3 days give
\* count 2 and average 4.0.
C16_Average ==
    (stat.prog = "argparse" /\ stat.kind \in {"month_stats", "year_stats"})
        => /\ stat.exc = "none"
           /\ LET D == Dated(shelf)
              IN  \A k \in 1..Len(stat.rows) :
                 LET row == stat.rows[k]
                     I   == CountedIn(shelf, D, row)
                 IN  I # {} =>
                        /\ row.count = Cardinality(I)
                        /\ \E a \in row.avg_days_to_read :
                              /\ row.avg_days_to_read = {a}
                              /\ NearestHundredth(a, TotalDays(shelf, I), row.count)

C16_Witness ==
    /\ stat.prog = "argparse" /\ stat.kind = "month_stats"
    /\ stat.year = 2025 /\ stat.month = 1
    /\ shelf = <<Arg(<<"a">>, <<"b">>, COMPLETED, D0101, D0105),
                 Arg(<<"a">>, <<"b">>, COMPLETED, D0103, D0105)>>
    /\ stat.rows = <<[year |-> 2025, month |-> 1, count |-> 2,
                      avg_days_to_read |-> {400}]>>

\* C17: in every row of month_stats and of year_stats, avg_days_to_read is None
\* exactly when count is 0; and a group without a qualifying book, a COMPLETED
\* book whose date_completed lies in it, is answered with a row of count 0 and
\* average None, not with no row.
C17_EmptyGroup ==
    (stat.kind \in {"month_stats", "year_stats"} /\ stat.exc = "none")
        => /\ Len(stat.rows) > 0
           /\ \A k \in 1..Len(stat.rows) :
                 LET row == stat.rows[k]
                 IN  /\ row.avg_days_to_read = {} <=> row.count = 0
                     /\ (\A m \in 1..LastMonth :
                            ("month" \in DOMAIN row => row.month = m)
                                => CompletedIn(shelf, row.year, m) = {})
                           => row.count = 0 /\ row.avg_days_to_read = {}

\* C18: the stats command asked for a year, for a year and a month, or for the
\* detailed table, and the statistics screen, do not raise over an empty store
\* or over a store without a qualifying book; asked for a year, with or
\* without a month, the command answers count 0 and average None.
C18_NoFailureOnEmpty ==
    (/\ NoneQualifies(shelf)
     /\ \/ stat.kind = "on_mount"
        \/ stat.kind = "stats" /\ (stat.year # 0 \/ stat.detailed))
        => /\ stat.exc = "none"
           /\ (stat.kind = "stats" /\ stat.year # 0 /\ ~stat.detailed)
                 => /\ Len(stat.rows) = 1
                    /\ stat.rows[1].count = 0
                    /\ stat.rows[1].avg_days_to_read = {}

C20_AllYears ==
    stat.kind = "detailed_stats"
        => /\ stat.exc = "none"
           /\ Len(stat.rows) = 12 * Cardinality(QualifyingYears(shelf))
           /\ {stat.rows[k].year : k \in 1..Len(stat.rows)} = QualifyingYears(shelf)
           /\ \A k \in 1..Len(stat.rows) :
                 /\ stat.rows[k].month = ((k - 1) % 12) + 1
                 /\ stat.rows[k].year = stat.rows[k - ((k - 1) % 12)].year

\* C21: the stats command given a month and no year answers 'You must provide
\* a year and a month.' and shows no table of statistics, with the detailed flag
\* and without it.
C21_MonthRequiresYear ==
    (stat.kind = "stats" /\ stat.month # 0 /\ stat.year = 0)
        => /\ stat.msg = "You must provide a year and a month."
           /\ stat.rows = <<>>

\* C22: a read command given a field and a value shows exactly the stored
\* books whose field contains the value, in store order; given no field or no
\* value it shows every stored book; and when there is nothing to show it
\* shows nothing and does not raise.
C22_Query ==
    query.prog # "none"
        => /\ query.exc = "none"
                 => [i \in 1..Len(query.books) |-> SixFields(query.prog, query.books[i])]
                       = Wanted(query)
           /\ Wanted(query) = <<>> => (query.exc = "none" /\ query.books = <<>>)

\* C23: every add, edit and confirmed delete of the CSV program that wrote the
\* store without raising printed a confirmation, 'Added <title> by <author>'
\* or 'Deleting <title> by <author>', that names the book.
C23_ConfirmationOutput ==
    [][(/\ out'.exc = "none"
        /\ \/ out'.cmd = "add" /\ csv' # csv
           \/ out'.cmd = "edit" /\ out'.prompts = 6
           \/ out'.cmd = "delete" /\ out'.answer = "y")
          => out'.msg \in {"Added", "Deleting"}]_vars

\* C24: two add commands on the same CSV store, each reading the store,
\* computing its id and appending its record in separate steps, can leave two
\* records with the same id: whenever both read the same records before either
\* appended, both append the same id and the store holds it twice, although add
\* commands run one after the other never do that.
C24_RaceDuplicatesIds ==
    /\ proc = NoProcs => DistinctIds(csv)
    /\ (/\ \A p \in Procs : proc[p].pc = "done"
        /\ \A p, q \in Procs : proc[p].r = proc[q].r)
          => /\ \A p, q \in Procs : proc[p].book.id = proc[q].book.id
             /\ ~DistinctIds(csv)

C24_Witness ==
    /\ \A p \in Procs : proc[p].pc = "done"
    /\ \E i, j \in 1..Len(StoredIds(csv)) :
          i # j /\ StoredIds(csv)[i] = StoredIds(csv)[j]

\* C25: after every add, edit and delete, a CSV file that exists begins with
\* the header id, title, author, status, date_started, date_completed; every
\* row after it holds six values in that order, an id of digits first and a
\* status fourth; and nothing of days_to_read is stored.
C25_FlatFileLayout ==
    csv.exists
        => /\ Len(csv.rows) >= 1
           /\ csv.rows[1] = <<ID, TITLE, AUTHOR, STATUS, DATE_STARTED, DATE_COMPLETED>>
           /\ \A i \in 2..Len(csv.rows) :
                 /\ Len(csv.rows[i]) = 6
                 /\ IntOk(csv.rows[i][1])
                 /\ csv.rows[i][4] \in Status

\* C26: from every store state, a missing file among them, an add that
\* succeeded is followed by a read_books() that returns the books it returned
\* before, unchanged and in their order, and after them one new book with the
\* title, author, status and dates given to add.
C26_AddReadRoundTrip ==
    [][\A a \in AddInputs :
          (/\ out'.cmd = "add" /\ out'.exc = "none" /\ out'.msg = "Added"
           /\ csv' = AddBook(csv, ReadBooks(csv), a).file
           /\ out' = AddBook(csv, ReadBooks(csv), a).out)
             => LET before == ReadBooks(csv)
                    after  == ReadBooks(csv')
                    n      == Len(before.books)
                IN  /\ after.exc = "none"
                    /\ Len(after.books) = n + 1
                    /\ SubSeq(after.books, 1, n) = before.books
                    /\ after.books[n + 1].title = a.title
                    /\ after.books[n + 1].author = a.author
                    /\ after.books[n + 1].status = a.status
                    /\ NoDateAs(after.books[n + 1].date_started) = NoDateAs(a.date_started)
                    /\ NoDateAs(after.books[n + 1].date_completed)
                          = NoDateAs(a.date_completed)]_vars

\* C27: after any sequence of add, edit and delete on the CSV store, the ids of
\* the records grow strictly in file order, so that the last record, from
\* which the next add counts, holds the greatest id.
C27_LastIdIsMax ==
    \A i, j \in 1..Len(StoredIds(csv)) :
        i < j => /\ IntOk(StoredIds(csv)[i]) /\ IntOk(StoredIds(csv)[j])
                 /\ StrToInt(StoredIds(csv)[i]) < StrToInt(StoredIds(csv)[j])

\* C28: the book that get_book_by_id(id) returns has exactly the id asked for,
\* not an id that merely contains it, whatever the store holds and in whatever
\* order: the record edit(id) and delete(id) ask about is the record with
\* that id.
C28_ExactIdLookup ==
    [][(out'.cmd \in {"edit", "delete"} /\ out'.prompts > 0) => out'.id = out'.arg]_vars

\* C29: the records of the store stay valid and read_books() keeps succeeding:
\* an edit of a store whose records are valid leaves every record valid and
\* the store readable, and an edit answered with a status outside the three is
\* refused and leaves the store as it was.
C29_StoredRecordsValid ==
    [][(/\ out'.cmd = "edit" /\ out'.prompts = 6
        /\ \A x \in StoredRecords(csv) : ValidRecord(x)
        /\ ReadBooks(csv).exc = "none")
          => /\ \A x \in StoredRecords(csv') : ValidRecord(x)
             /\ ReadBooks(csv').exc = "none"
             /\ out'.inp[4] \notin Status \cup {<<>>} => csv' = csv]_vars

\* C30: for every shelf and every year, the counts of the 12 rows of
\* year_stats(year, detailed=True) of the CSV program add up to the count of
\* the one row of year_stats(year), which is 0 exactly when the 12 counts are
\* all 0.
C30_YearMonthConsistency ==
    (stat.prog = "argparse" /\ stat.kind = "year_stats" /\ stat.detailed)
        => LET summary == AnswerOn([stat EXCEPT !.detailed = FALSE], shelf)
           IN  /\ stat.exc = "none" /\ summary.exc = "none"
               /\ Len(stat.rows) = 12 /\ Len(summary.rows) = 1
               /\ SumCounts(stat.rows) = summary.rows[1].count
               /\ summary.rows[1].count = 0
                     <=> \A k \in 1..Len(stat.rows) : stat.rows[k].count = 0

C30_Witness ==
    /\ stat.prog = "argparse" /\ stat.kind = "year_stats" /\ stat.detailed
    /\ stat.year = 2025
    /\ Len(stat.rows) = 12
    /\ stat.rows[1].count = 2 /\ stat.rows[2].count = 1
    /\ AnswerOn([stat EXCEPT !.detailed = FALSE], shelf).rows[1].count = 3

=============================================================================
